---- MODULE Spec2Model ----
(***************************************************************************)
(* A model of youtube_downloader.py: the URL validator, the progress-line  *)
(* parser of _run_yt_dlp_download, and the download orchestrator           *)
(* (start_download, _download_thread, _update_progress,                    *)
(* _download_complete) with the metadata fetch beside it.                  *)
(*                                                                         *)
(* Text is a sequence of one-character strings.  A percentage is held in   *)
(* tenths (12.3 is 123), the sentinel -1 is held as Unknown.               *)
(***************************************************************************)
EXTENDS Integers, Sequences, FiniteSets, TLC

(***************************************************************************)
(* Bounds of the model                                                     *)
(***************************************************************************)
\* accepted requests (downloads and metadata fetches) in one behaviour
MaxRequests == 2
\* output lines of one run of the external process
MaxEvents == 2
\* progress-hook calls of one library download
MaxHooks == 1
\* length of the generated output lines checked by the parser specification
MaxLineLen == 4

(***************************************************************************)
(* Characters                                                              *)
(***************************************************************************)
Digits == {"0", "1", "2", "3", "4", "5", "6", "7", "8", "9"}

DigitVal(c) ==
    CASE c = "0" -> 0 [] c = "1" -> 1 [] c = "2" -> 2 [] c = "3" -> 3
      [] c = "4" -> 4 [] c = "5" -> 5 [] c = "6" -> 6 [] c = "7" -> 7
      [] c = "8" -> 8 [] c = "9" -> 9

IsDigit(s, i) == i >= 1 /\ i <= Len(s) /\ s[i] \in Digits

\* s holds the literal lit at position p
HasAt(s, p, lit) ==
    /\ p >= 1
    /\ p + Len(lit) - 1 <= Len(s)
    /\ \A k \in 1..Len(lit) : s[p + k - 1] = lit[k]

\* str.strip(): leading and trailing whitespace removed
RECURSIVE LStrip(_)
LStrip(s) == IF s # <<>> /\ Head(s) = " " THEN LStrip(Tail(s)) ELSE s

RECURSIVE RStrip(_)
RStrip(s) ==
    IF s # <<>> /\ s[Len(s)] = " " THEN RStrip(SubSeq(s, 1, Len(s) - 1)) ELSE s

Strip(s) == RStrip(LStrip(s))

(***************************************************************************)
(* is_valid_youtube_url: the regular expression, matched at the start of   *)
(* the string, as the set of positions each group can end at.              *)
(***************************************************************************)
L_http == <<"h", "t", "t", "p", ":", "/", "/">>
L_https == <<"h", "t", "t", "p", "s", ":", "/", "/">>
L_www == <<"w", "w", "w", ".">>
L_youtube == <<"y", "o", "u", "t", "u", "b", "e">>
L_youtu == <<"y", "o", "u", "t", "u">>
L_nocookie ==
    <<"y", "o", "u", "t", "u", "b", "e", "-", "n", "o", "c", "o", "o", "k", "i", "e">>
L_dot == <<".">>
L_com == <<"c", "o", "m">>
L_be == <<"b", "e">>
L_slash == <<"/">>
L_watch == <<"w", "a", "t", "c", "h", "?", "v", "=">>
L_embed == <<"e", "m", "b", "e", "d", "/">>
L_v == <<"v", "/">>
L_qv == <<"?", "v", "=">>

\* the identifier group is [^&=%\?]{11}
IdLen == 11
NotIdChars == {"&", "=", "%", "?"}

\* positions after lit, for the positions of P that hold lit
After(s, P, lit) == {p + Len(lit) : p \in {q \in P : HasAt(s, q, lit)}}

AfterAny(s, P, lits) == UNION {After(s, P, lit) : lit \in lits}

\* .+\?v= : one or more characters, then ?v=
AfterAnyThenQv(s, P) ==
    {q + Len(L_qv) : q \in {r \in 1..Len(s) :
                             HasAt(s, r, L_qv) /\ \E p \in P : r >= p + 1}}

IdRunAt(s, p, n) ==
    /\ p >= 1
    /\ p + n - 1 <= Len(s)
    /\ \A k \in 0..(n - 1) : s[p + k] \notin NotIdChars

\* the positions the host part (scheme, www, host, tld, slash) can end at
HostEnds(s) ==
    LET P1 == {1} \cup AfterAny(s, {1}, {L_http, L_https})
        P2 == P1 \cup After(s, P1, L_www)
        P3 == AfterAny(s, P2, {L_youtube, L_youtu, L_nocookie})
        P4 == AfterAny(s, After(s, P3, L_dot), {L_com, L_be})
    IN  After(s, P4, L_slash)

\* the identifier group is matched one time less
is_valid_youtube_url_short(url) ==
    LET P5 == HostEnds(url)
        P6 == P5 \cup AfterAny(url, P5, {L_watch, L_embed, L_v})
                 \cup AfterAnyThenQv(url, P5)
    IN  \E p \in P6 : IdRunAt(url, p, IdLen - 1)

is_valid_youtube_url(url) ==
    LET P5 == HostEnds(url)
        P6 == P5 \cup AfterAny(url, P5, {L_watch, L_embed, L_v})
                 \cup AfterAnyThenQv(url, P5)
    IN  \E p \in P6 : IdRunAt(url, p, IdLen)

(***************************************************************************)
(* _run_yt_dlp_download: the percentage of one output line                 *)
(***************************************************************************)
\* the sentinel progress_callback(-1, line) passes
Unknown == -1

\* the decimal number of the digits s[i..i+k-1]
RECURSIVE NumVal(_, _, _)
NumVal(s, i, k) ==
    IF k = 0 THEN 0 ELSE NumVal(s, i, k - 1) * 10 + DigitVal(s[i + k - 1])

\* (\d{1,3}\.\d)% matched at position i with k leading digits
DecAt(s, i, k) ==
    /\ \A j \in 0..(k - 1) : IsDigit(s, i + j)
    /\ HasAt(s, i + k, <<".">>)
    /\ IsDigit(s, i + k + 1)
    /\ HasAt(s, i + k + 2, <<"%">>)

\* (\d{1,3})% matched at position i with k digits
IntAt(s, i, k) ==
    /\ \A j \in 0..(k - 1) : IsDigit(s, i + j)
    /\ HasAt(s, i + k, <<"%">>)

\* the greedy count of digits a match at i takes: 3, else 2, else 1, else 0
GreedyDec(s, i) ==
    IF DecAt(s, i, 3) THEN 3 ELSE IF DecAt(s, i, 2) THEN 2
    ELSE IF DecAt(s, i, 1) THEN 1 ELSE 0

GreedyInt(s, i) ==
    IF IntAt(s, i, 3) THEN 3 ELSE IF IntAt(s, i, 2) THEN 2
    ELSE IF IntAt(s, i, 1) THEN 1 ELSE 0

\* re.search: the first position, from i on, where the pattern matches; 0 if none
RECURSIVE SearchDec(_, _)
SearchDec(s, i) ==
    IF i > Len(s) THEN 0
    ELSE IF GreedyDec(s, i) > 0 THEN i ELSE SearchDec(s, i + 1)

RECURSIVE SearchInt(_, _)
SearchInt(s, i) ==
    IF i > Len(s) THEN 0
    ELSE IF GreedyInt(s, i) > 0 THEN i ELSE SearchInt(s, i + 1)

\* float(m.group(1)) in tenths, for the decimal and for the integer pattern
DecValue(s, i) ==
    LET k == GreedyDec(s, i)
    IN  NumVal(s, i, k) * 10 + DigitVal(s[i + k + 1])

IntValue(s, i) == NumVal(s, i, GreedyInt(s, i)) * 10

\* the integer pattern is searched first
ParsePercent_int_first(line) ==
    LET d == SearchDec(line, 1)
        n == SearchInt(line, 1)
    IN  IF n > 0 THEN IntValue(line, n)
        ELSE IF d > 0 THEN DecValue(line, d)
        ELSE Unknown

\* the percent passed to progress_callback for the (stripped) line:
\* the decimal pattern is searched first, then the integer pattern
ParsePercent(line) ==
    LET d == SearchDec(line, 1)
        n == SearchInt(line, 1)
    IN  IF d > 0 THEN DecValue(line, d)
        ELSE IF n > 0 THEN IntValue(line, n)
        ELSE Unknown

(***************************************************************************)
(* Inputs of the orchestrator model                                        *)
(***************************************************************************)
VideoId == <<"d", "Q", "w", "4", "w", "9", "W", "g", "X", "c", "Q">>

U_watch == L_https \o L_www \o L_youtube \o L_dot \o L_com \o L_slash \o L_watch \o VideoId
U_noid == L_youtube \o L_dot \o L_com \o L_slash \o L_watch \o <<"a", "b", "c">>

\* what the URL entry can hold when a request is made
Urls == {<<>>, U_watch, U_noid}

\* the texts the validator specification draws from: every combination of a
\* scheme, www, a host, a domain, a slash, a position marker and an identifier,
\* right and wrong ones, and texts with blanks around them
Id10 == SubSeq(VideoId, 1, 10)
Id12 == VideoId \o <<"A">>
IdAmp == <<"d", "Q", "w", "4", "&", "9", "W", "g", "X", "c", "Q">>
U_short == L_https \o L_www \o L_youtube \o L_dot \o L_com \o L_slash \o L_watch \o Id10

UrlParts ==
    <<{<<>>, L_https, <<"f", "t", "p", ":", "/", "/">>},
      {<<>>, L_www},
      {L_youtube, L_youtu, L_nocookie, <<"v", "i", "m", "e", "o">>},
      {<<".">> \o L_com \o L_slash, <<".">> \o L_be \o L_slash, <<".">> \o L_be,
       <<".", "o", "r", "g", "/">>},
      {<<>>, L_watch, L_embed, <<"x">> \o L_qv, L_qv, <<"w", "a", "t", "c", "h", "?">>},
      {<<>>, VideoId, Id10, Id12, IdAmp}>>

UrlUniverse ==
    {p[1] \o p[2] \o p[3] \o p[4] \o p[5] \o p[6] :
        p \in UrlParts[1] \X UrlParts[2] \X UrlParts[3] \X UrlParts[4]
               \X UrlParts[5] \X UrlParts[6]}
    \cup {<<>>, <<" ">>, <<" ">> \o U_watch \o <<" ">>, U_noid, <<" ">> \o U_noid}

Line_text == <<"D", "o", "w", "n">>
Line_big == <<"2", "5", "0", "%">>

\* the lines the external process prints
Lines == {Line_text, Line_big}

\* the exit codes of the external process
ExitCodes == {0, 1}

(***************************************************************************)
(* Values: exceptions, dialog messages, status texts, queued callbacks     *)
(***************************************************************************)
Err(etype, text, code, output) ==
    [etype |-> etype, text |-> text, code |-> code, output |-> output]

NoErr == Err("none", "", 0, <<>>)

\* raise RuntimeError(f"yt-dlp exited with {p.returncode}"); captured is the
\* output read from the process, which the message does not take up
ExitError(rc, captured) == Err("RuntimeError", "yt-dlp exited with", rc, <<>>)

Msg(text, err) == [text |-> text, err |-> err]

NoMsg == Msg("", NoErr)

Status(text, line) == [text |-> text, line |-> line]

Ready == Status("Ready to download", <<>>)

Callback(fn, w, percent, status, success, message) ==
    [fn |-> fn, w |-> w, percent |-> percent, status |-> status,
     success |-> success, message |-> message]

\* the callback is put before the waiting ones
Post_front(q, cb) == <<cb>> \o q

\* root.after(0, f, ...) from any thread: the callback joins the foreground's queue
Post(q, cb) == Append(q, cb)

(***************************************************************************)
(* Quality and format: _get_format_string and the audio branches of        *)
(* _download_thread                                                        *)
(***************************************************************************)
Q_best == <<"b", "e", "s", "t">>
Q_worst == <<"w", "o", "r", "s", "t">>
Q_720p == <<"7", "2", "0", "p">>
Q_480p == <<"4", "8", "0", "p">>
Q_360p == <<"3", "6", "0", "p">>
Q_240p == <<"2", "4", "0", "p">>
Q_144p == <<"1", "4", "4", "p">>

\* the values of the quality combobox
Qualities == {Q_best, Q_worst, Q_720p, Q_480p, Q_360p, Q_240p, Q_144p}

F_mp4 == <<"m", "p", "4">>
F_webm == <<"w", "e", "b", "m">>
F_mkv == <<"m", "k", "v">>
F_mp3 == <<"m", "p", "3">>
F_m4a == <<"m", "4", "a">>

\* the values of the format combobox
Formats == {F_mp4, F_webm, F_mkv, F_mp3, F_m4a}

\* the formats every audio branch tests for
AudioFormats == {F_mp3, F_m4a}

T_best_ext == <<"b", "e", "s", "t", "[", "e", "x", "t", "=">>
T_worst_ext == <<"w", "o", "r", "s", "t", "[", "e", "x", "t", "=">>
T_or_best == <<"]", "/", "b", "e", "s", "t">>
T_or_worst == <<"]", "/", "w", "o", "r", "s", "t">>
T_best_height == <<"b", "e", "s", "t", "[", "h", "e", "i", "g", "h", "t", "<", "=">>
T_ext == <<"]", "[", "e", "x", "t", "=">>
T_or_best_height == <<"]", "/", "b", "e", "s", "t", "[", "h", "e", "i", "g", "h", "t", "<", "=">>
T_bestaudio == <<"b", "e", "s", "t", "a", "u", "d", "i", "o", "/", "b", "e", "s", "t">>

\* quality.replace('p', '')
Replace_p(quality) ==
    LET NotP(c) == c # "p"
    IN  SelectSeq(quality, NotP)

_get_format_string(quality, format_ext) ==
    IF quality = Q_best THEN T_best_ext \o format_ext \o T_or_best
    ELSE IF quality = Q_worst THEN T_worst_ext \o format_ext \o T_or_worst
    ELSE LET height == Replace_p(quality)
         IN  T_best_height \o height \o T_ext \o format_ext
                 \o T_or_best_height \o height \o T_or_best

\* what _run_yt_dlp_download is called with: the -f argument and the extra
\* arguments, as a list of words
Cmd(fmt, extra_args) == [fmt |-> fmt, extra_args |-> extra_args]
NoCmd == Cmd(<<>>, <<>>)

\* the format is kept as it was built
BuildCmd_keep_format(format_string, format) ==
    IF format \in AudioFormats
    THEN Cmd(format_string, <<"--extract-audio", "--audio-format", format>>)
    ELSE Cmd(format_string, <<>>)

\* the executable's branch on self.format_var.get()
BuildCmd(format_string, format) ==
    IF format \in AudioFormats
    THEN Cmd(T_bestaudio, <<"--extract-audio", "--audio-format", format>>)
    ELSE Cmd(format_string, <<>>)

\* ydl_opts of the library branch: 'format' and 'postprocessors'
Opts(fmt, postprocessors) == [format |-> fmt, postprocessors |-> postprocessors]
NoOpts == Opts(<<>>, <<>>)

BuildOpts(format_string, format) ==
    IF format \in AudioFormats
    THEN Opts(T_bestaudio, <<[key |-> "FFmpegExtractAudio", preferredcodec |-> format,
                              preferredquality |-> "192"]>>)
    ELSE Opts(format_string, <<>>)

(***************************************************************************)
(* State                                                                   *)
(***************************************************************************)
VARIABLES
    is_downloading,   \* the download flag
    progress_var,     \* the progress bar's value, in tenths
    status_label,     \* the status text
    download_button,  \* "normal" or "disabled"
    info_button,      \* "normal" or "disabled"
    info_text,        \* the text of the information box
    quality_var,      \* the quality the combobox holds
    format_var,       \* the format the combobox holds
    after_queue,      \* callbacks posted with root.after, oldest first
    workers,          \* the download threads, in the order they were started
    info_threads      \* the metadata threads, in the order they were started

\* the state the foreground thread owns
fg_vars ==
    <<is_downloading, progress_var, status_label, download_button, info_button, info_text,
      quality_var, format_var>>

vars ==
    <<is_downloading, progress_var, status_label, download_button, info_button,
      info_text, quality_var, format_var, after_queue, workers, info_threads>>

\* a download thread as threading.Thread(target=self._download_thread, args=(url,))
\* starts it; read, handled and completions record what happened to it
NewWorker(url) ==
    [url |-> url, pc |-> "resolve", yt_exe |-> FALSE, nhooks |-> 0, err |-> NoErr, failed_in |-> "none",
     format_string |-> <<>>, cmd |-> NoCmd, ydl_opts |-> NoOpts,
     read |-> <<>>, handled |-> <<>>, completions |-> <<>>]

\* the record of a download is dropped, but for its completions, once it has
\* ended and its completion was handled
Settled(wk) == wk.pc = "done" /\ wk.completions # <<>>

Forget(ws) ==
    [w \in DOMAIN ws |->
        IF Settled(ws[w])
        THEN [NewWorker(<<>>) EXCEPT !.pc = "done", !.completions = ws[w].completions]
        ELSE ws[w]]

Init ==
    /\ is_downloading = FALSE
    /\ progress_var = 0
    /\ status_label = Ready
    /\ download_button = "normal"
    /\ info_button = "normal"
    /\ info_text = ""
    /\ quality_var = Q_best
    /\ format_var = F_mp4
    /\ after_queue = <<>>
    /\ workers = <<>>
    /\ info_threads = <<>>

(***************************************************************************)
(* Foreground: the user's requests.  url_text is self.url_var.get() and    *)
(* path_exists is os.path.exists(self.download_path.get()) when the        *)
(* handler runs.  A handler that shows a dialog and returns changes        *)
(* nothing; the dialog's text is the handler's answer to the caller.       *)
(***************************************************************************)
\* the validator's answer for each text a request can read from the entry
url_is_valid ==
    [u \in {Strip(x) : x \in Urls \cup UrlUniverse} |-> is_valid_youtube_url(u)]

\* the flag is not looked at
AlreadyRunning_never == FALSE

\* if self.is_downloading:
AlreadyRunning == is_downloading

\* the dialog start_download shows before it returns early; "" when the
\* download is started
\* the user picks a value of the quality combobox
select_quality(q) ==
    /\ quality_var' = q
    /\ UNCHANGED <<is_downloading, progress_var, status_label, download_button,
                   info_button, info_text, format_var, after_queue, workers, info_threads>>

\* the user picks a value of the format combobox
select_format(f) ==
    /\ format_var' = f
    /\ UNCHANGED <<is_downloading, progress_var, status_label, download_button,
                   info_button, info_text, quality_var, after_queue, workers, info_threads>>

\* the flag is looked at before the URL and the folder
start_download_dialog_flag_first(url_text, path_exists) ==
    LET url == Strip(url_text)
    IN  IF AlreadyRunning THEN "Download already in progress"
        ELSE IF url = <<>> THEN "Please enter a YouTube URL"
        ELSE IF ~url_is_valid[url] THEN "Please enter a valid YouTube URL"
        ELSE IF ~path_exists THEN "Download folder does not exist"
        ELSE ""

start_download_dialog(url_text, path_exists) ==
    LET url == Strip(url_text)
    IN  IF url = <<>> THEN "Please enter a YouTube URL"
        ELSE IF ~url_is_valid[url] THEN "Please enter a valid YouTube URL"
        ELSE IF ~path_exists THEN "Download folder does not exist"
        ELSE IF AlreadyRunning THEN "Download already in progress"
        ELSE ""

start_download(url_text, path_exists) ==
    IF start_download_dialog(url_text, path_exists) # ""
    THEN UNCHANGED vars
    ELSE /\ Len(workers) + Len(info_threads) < MaxRequests
         /\ download_button' = "disabled"
         /\ is_downloading' = TRUE
         /\ progress_var' = 0
         /\ workers' = Append(Forget(workers), NewWorker(Strip(url_text)))
         /\ UNCHANGED <<quality_var, format_var, status_label, info_button, info_text, after_queue, info_threads>>

\* the dialog get_video_info shows before it returns early; "" when the
\* fetch is started
get_video_info_dialog(url_text) ==
    LET url == Strip(url_text)
    IN  IF url = <<>> THEN "Please enter a YouTube URL"
        ELSE IF ~url_is_valid[url] THEN "Please enter a valid YouTube URL"
        ELSE ""

get_video_info(url_text) ==
    IF get_video_info_dialog(url_text) # ""
    THEN UNCHANGED vars
    ELSE /\ Len(workers) + Len(info_threads) < MaxRequests
         /\ info_button' = "disabled"
         /\ status_label' = Status("Getting video information...", <<>>)
         /\ info_threads' = Append(info_threads, [url |-> Strip(url_text), pc |-> "fetch"])
         /\ UNCHANGED <<quality_var, format_var, is_downloading, progress_var, download_button, info_text,
                        after_queue, workers>>

(***************************************************************************)
(* The download thread, _download_thread, step by step                     *)
(***************************************************************************)
\* self.root.after(0, self._update_progress, percent, status) on a worker
RelayProgress(w, percent, status) ==
    /\ after_queue' =
           Post(after_queue, Callback("_update_progress", w, percent, status, FALSE, NoMsg))
    /\ UNCHANGED fg_vars

\* the completion is not posted
RelayCompletion_lost(w, success, message) == UNCHANGED <<fg_vars, after_queue>>

\* _download_complete is called on the worker itself
RelayCompletion_direct(w, success, message) ==
    /\ is_downloading' = FALSE
    /\ download_button' = "normal"
    /\ progress_var' = IF success THEN 1000 ELSE 0
    /\ status_label' = Ready
    /\ UNCHANGED <<quality_var, format_var, info_button, info_text, after_queue>>

\* self.root.after(0, self._download_complete, success, message) on a worker
RelayCompletion(w, success, message) ==
    /\ after_queue' =
           Post(after_queue, Callback("_download_complete", w, Unknown, Ready, success, message))
    /\ UNCHANGED fg_vars

\* the end of the try block: the success message is relayed
Succeed(w) ==
    /\ workers' = [workers EXCEPT ![w].pc = "done"]
    /\ RelayCompletion(w, TRUE, Msg("Download completed successfully!", NoErr))

\* the exception ends the thread and nothing is relayed
Fail_unreported(w, e, phase) ==
    /\ workers' = [workers EXCEPT ![w].pc = "done", ![w].err = e, ![w].failed_in = phase]
    /\ UNCHANGED <<fg_vars, after_queue>>

\* except Exception as e: the failure message is relayed
Fail(w, e, phase) ==
    /\ workers' = [workers EXCEPT ![w].pc = "done", ![w].err = e, ![w].failed_in = phase]
    /\ RelayCompletion(w, FALSE, Msg("Download failed:", e))

\* format string, ffmpeg and yt-dlp are looked up; found is whether
\* _find_yt_dlp_exe returned a path
dl_resolve(w, found) ==
    /\ workers[w].pc = "resolve"
    /\ workers' = [workers EXCEPT ![w].pc = IF found THEN "args" ELSE "import",
                                  ![w].yt_exe = found,
                                  ![w].format_string =
                                      _get_format_string(quality_var, format_var)]
    /\ UNCHANGED <<fg_vars, after_queue, info_threads>>

\* the executable's branch: the format and the extra arguments of the call
dl_args(w) ==
    /\ workers[w].pc = "args"
    /\ workers' = [workers EXCEPT ![w].pc = "launch",
                                  ![w].cmd = BuildCmd(workers[w].format_string, format_var)]
    /\ UNCHANGED <<fg_vars, after_queue, info_threads>>

\* subprocess.Popen starts the process, or raises
dl_launch(w) ==
    /\ workers[w].pc = "launch"
    /\ \/ /\ workers' = [workers EXCEPT ![w].pc = "reading"]
          /\ UNCHANGED <<fg_vars, after_queue>>
       \/ Fail(w, Err("OSError", "cannot execute yt-dlp", 0, <<>>), "Running")
    /\ UNCHANGED info_threads

\* progress_cb(pct, status) of _download_thread
progress_cb(w, pct, status) ==
    IF pct >= 0 THEN RelayProgress(w, pct, Status("", status))
    ELSE RelayProgress(w, Unknown, Status("", status))

\* one iteration of `for line in p.stdout`: the process has printed raw
dl_read_line(w, raw) ==
    /\ workers[w].pc = "reading"
    /\ Len(workers[w].read) < MaxEvents
    /\ LET line == Strip(raw)
       IN  progress_cb(w, ParsePercent(line), line)
    /\ workers' = [workers EXCEPT ![w].read = Append(@, raw)]
    /\ UNCHANGED info_threads

\* the process has closed its output: p.wait() and the return code rc
dl_exit(w, rc) ==
    /\ workers[w].pc = "reading"
    /\ IF rc # 0
          THEN Fail(w, ExitError(rc, workers[w].read), "Running")
          ELSE Succeed(w)
    /\ UNCHANGED info_threads

\* import yt_dlp on the fallback path
dl_import(w) ==
    /\ workers[w].pc = "import"
    /\ \/ /\ workers' = [workers EXCEPT ![w].pc = "library",
                                        ![w].ydl_opts =
                                            BuildOpts(workers[w].format_string, format_var)]
          /\ UNCHANGED <<fg_vars, after_queue>>
       \/ Fail(w, Err("ImportError", "No module named yt_dlp", 0, <<>>), "Resolving")
    /\ UNCHANGED info_threads

Hook(status, key, downloaded, total) ==
    [status |-> status, key |-> key, downloaded |-> downloaded, total |-> total]

\* the dictionaries yt_dlp hands to a progress hook: half of a known total,
\* twice an estimate that was too low, no total, finished, and a status the
\* hook ignores
HookInputs ==
    {Hook("downloading", "total_bytes", 1, 2),
     Hook("downloading", "total_bytes_estimate", 2, 1),
     Hook("downloading", "none", 1, 1),
     Hook("finished", "none", 1, 1),
     Hook("error", "none", 1, 1)}

\* (downloaded_bytes / total) * 100, in tenths, rounded down
HookPercent(d) == (d.downloaded * 1000) \div d.total

\* _progress_hook(d), called by the library on the download thread
_progress_hook(w, d) ==
    IF d.status = "downloading"
    THEN IF d.key = "total_bytes"
         THEN RelayProgress(w, HookPercent(d), Status("Downloading...", <<>>))
         ELSE IF d.key = "total_bytes_estimate"
         THEN RelayProgress(w, HookPercent(d), Status("Downloading... (estimated)", <<>>))
         ELSE RelayProgress(w, Unknown, Status("Downloading...", <<>>))
    ELSE IF d.status = "finished"
    THEN RelayProgress(w, 1000, Status("Download finished", <<>>))
    ELSE UNCHANGED <<fg_vars, after_queue>>

dl_hook(w, d) ==
    /\ workers[w].pc = "library"
    /\ workers[w].nhooks < MaxHooks
    /\ _progress_hook(w, d)
    /\ workers' = [workers EXCEPT ![w].nhooks = @ + 1]
    /\ UNCHANGED info_threads

\* ydl.download([url]) returns or raises
dl_library_exit(w) ==
    /\ workers[w].pc = "library"
    /\ \/ Succeed(w)
       \/ Fail(w, Err("DownloadError", "library download failed", 0, <<>>), "Running")
    /\ UNCHANGED info_threads

(***************************************************************************)
(* The metadata thread, _get_video_info_thread                             *)
(***************************************************************************)
\* the try block posts the summary, or the except block the error text;
\* the finally block posts the two lambdas
info_run(i) ==
    /\ info_threads[i].pc = "fetch"
    /\ \E text \in {"Title: ...", "Error getting video information:"} :
           after_queue' =
               Post(Post(Post(after_queue,
                    Callback("_update_video_info", 0, Unknown, Ready, FALSE, Msg(text, NoErr))),
                    Callback("info_button_normal", 0, Unknown, Ready, FALSE, NoMsg)),
                    Callback("status_ready", 0, Unknown, Ready, FALSE, NoMsg))
    /\ info_threads' = [info_threads EXCEPT ![i].pc = "done"]
    /\ UNCHANGED <<fg_vars, workers>>

(***************************************************************************)
(* Foreground: the callbacks the main loop takes from the queue, oldest    *)
(* first                                                                   *)
(***************************************************************************)
Next_cb == Head(after_queue)

\* _update_progress(percent, status)
_update_progress ==
    /\ after_queue # <<>>
    /\ Next_cb.fn = "_update_progress"
    /\ progress_var' = IF Next_cb.percent >= 0 THEN Next_cb.percent ELSE progress_var
    /\ status_label' = Next_cb.status
    /\ after_queue' = Tail(after_queue)
    /\ workers' = [workers EXCEPT ![Next_cb.w].handled =
                       Append(@, [percent |-> Next_cb.percent, status |-> Next_cb.status])]
    /\ UNCHANGED <<quality_var, format_var, is_downloading, download_button, info_button, info_text, info_threads>>

\* the flag is left as it is
_download_complete_keeps_flag ==
    /\ after_queue # <<>>
    /\ Next_cb.fn = "_download_complete"
    /\ download_button' = "normal"
    /\ progress_var' = IF Next_cb.success THEN 1000 ELSE 0
    /\ status_label' = Ready
    /\ after_queue' = Tail(after_queue)
    /\ workers' = [workers EXCEPT ![Next_cb.w].completions =
                       Append(@, [success |-> Next_cb.success, message |-> Next_cb.message])]
    /\ UNCHANGED <<is_downloading, quality_var, format_var, info_button, info_text,
                   info_threads>>

\* the progress value is left as it is
_download_complete_keeps_progress ==
    /\ after_queue # <<>>
    /\ Next_cb.fn = "_download_complete"
    /\ is_downloading' = FALSE
    /\ download_button' = "normal"
    /\ status_label' = Ready
    /\ after_queue' = Tail(after_queue)
    /\ workers' = [workers EXCEPT ![Next_cb.w].completions =
                       Append(@, [success |-> Next_cb.success, message |-> Next_cb.message])]
    /\ UNCHANGED <<progress_var, quality_var, format_var, info_button, info_text,
                   info_threads>>

\* _download_complete(success, message); the dialog shows the message
_download_complete ==
    /\ after_queue # <<>>
    /\ Next_cb.fn = "_download_complete"
    /\ is_downloading' = FALSE
    /\ download_button' = "normal"
    /\ progress_var' = IF Next_cb.success THEN 1000 ELSE 0
    /\ status_label' = Ready
    /\ after_queue' = Tail(after_queue)
    /\ workers' = [workers EXCEPT ![Next_cb.w].completions =
                       Append(@, [success |-> Next_cb.success, message |-> Next_cb.message])]
    /\ UNCHANGED <<quality_var, format_var, info_button, info_text, info_threads>>

\* _update_video_info(info_text)
_update_video_info ==
    /\ after_queue # <<>>
    /\ Next_cb.fn = "_update_video_info"
    /\ info_text' = Next_cb.message.text
    /\ after_queue' = Tail(after_queue)
    /\ UNCHANGED <<quality_var, format_var, is_downloading, progress_var, status_label, download_button,
                   info_button, workers, info_threads>>

\* lambda: self.info_button.config(state="normal")
info_button_normal ==
    /\ after_queue # <<>>
    /\ Next_cb.fn = "info_button_normal"
    /\ info_button' = "normal"
    /\ after_queue' = Tail(after_queue)
    /\ UNCHANGED <<quality_var, format_var, is_downloading, progress_var, status_label, download_button,
                   info_text, workers, info_threads>>

\* lambda: self.status_label.config(text="Ready to download")
status_ready ==
    /\ after_queue # <<>>
    /\ Next_cb.fn = "status_ready"
    /\ status_label' = Ready
    /\ after_queue' = Tail(after_queue)
    /\ UNCHANGED <<quality_var, format_var, is_downloading, progress_var, download_button, info_button,
                   info_text, workers, info_threads>>

(***************************************************************************)
(* Specifications                                                          *)
(***************************************************************************)
UserStep ==
    \/ \E u \in Urls, e \in BOOLEAN : start_download(u, e)
    \/ \E u \in Urls : get_video_info(u)

DownloadThreadStep ==
    \/ \E w \in DOMAIN workers, found \in BOOLEAN : dl_resolve(w, found)
    \/ \E w \in DOMAIN workers : dl_args(w)
    \/ \E w \in DOMAIN workers : dl_launch(w)
    \/ \E w \in DOMAIN workers, raw \in Lines : dl_read_line(w, raw)
    \/ \E w \in DOMAIN workers, rc \in ExitCodes : dl_exit(w, rc)
    \/ \E w \in DOMAIN workers : dl_import(w)
    \/ \E w \in DOMAIN workers, d \in HookInputs : dl_hook(w, d)
    \/ \E w \in DOMAIN workers : dl_library_exit(w)

InfoThreadStep == \E i \in DOMAIN info_threads : info_run(i)

DownloadCallbackStep ==
    \/ _update_progress
    \/ _download_complete

InfoCallbackStep ==
    \/ _update_video_info
    \/ info_button_normal
    \/ status_ready

MainLoopStep == DownloadCallbackStep \/ InfoCallbackStep

Next == UserStep \/ DownloadThreadStep \/ InfoThreadStep \/ MainLoopStep

Spec == Init /\ [][Next]_vars

\* the downloads alone; a download thread runs to its end and the main loop
\* keeps taking the callbacks that wait
NextLive ==
    \/ \E u \in Urls, e \in BOOLEAN : start_download(u, e)
    \/ DownloadThreadStep
    \/ DownloadCallbackStep

LiveSpec ==
    /\ Init
    /\ [][NextLive]_vars
    /\ WF_vars(DownloadThreadStep)
    /\ WF_vars(DownloadCallbackStep)

\* the validator on its own: the first request of a session, with any text of
\* UrlUniverse in the entry
NextUrl ==
    \/ /\ workers = <<>>
       /\ info_threads = <<>>
       /\ \E u \in UrlUniverse, e \in BOOLEAN : start_download(u, e)
    \/ /\ workers = <<>>
       /\ info_threads = <<>>
       /\ \E u \in UrlUniverse : get_video_info(u)

SpecUrl == Init /\ [][NextUrl]_vars

\* the format selector on its own: the first download of a session, with the
\* comboboxes changed at any time, through the executable or the library
NextFormat ==
    \/ \E q \in Qualities : select_quality(q)
    \/ \E f \in Formats : select_format(f)
    \/ /\ workers = <<>>
       /\ start_download(U_watch, TRUE)
    \/ \E w \in DOMAIN workers, found \in BOOLEAN : dl_resolve(w, found)
    \/ \E w \in DOMAIN workers : dl_args(w)
    \/ \E w \in DOMAIN workers : dl_launch(w)
    \/ \E w \in DOMAIN workers, rc \in ExitCodes : dl_exit(w, rc)
    \/ \E w \in DOMAIN workers : dl_import(w)
    \/ \E w \in DOMAIN workers : dl_library_exit(w)
    \/ _download_complete

SpecFormat == Init /\ [][NextFormat]_vars

\* the lines the parser specification draws from
Alphabet == {"1", "2", ".", "%", "x", " "}

Line_spec1 == <<"1", "2", ".", "3", "%", " ", "o", "f", " ", "1", "0", "M", "i", "B">>
Line_spec2 == <<"D", "o", "w", "n", "l", "o", "a", "d", "i", "n", "g", ".", ".", ".">>

LineUniverse ==
    UNION {[1..k -> Alphabet] : k \in 0..MaxLineLen} \cup {Line_spec1, Line_spec2}

\* the process runner on its own: the first download of a session, through
\* the executable, whose process prints one line, any of LineUniverse
NextParse ==
    \/ /\ workers = <<>>
       /\ start_download(U_watch, TRUE)
    \/ \E w \in DOMAIN workers : dl_resolve(w, TRUE)
    \/ \E w \in DOMAIN workers : dl_args(w)
    \/ \E w \in DOMAIN workers : dl_launch(w)
    \/ \E w \in DOMAIN workers :
           /\ workers[w].pc = "reading"
           /\ workers[w].read = <<>>
           /\ \E raw \in LineUniverse : dl_read_line(w, raw)
    \/ \E w \in DOMAIN workers, rc \in ExitCodes : dl_exit(w, rc)
    \/ _update_progress
    \/ _download_complete

SpecParse == Init /\ [][NextParse]_vars

(***************************************************************************)
(* Properties                                                              *)
(***************************************************************************)
\* the download threads that have not run to their end
ActiveWorkers == {w \in DOMAIN workers : workers[w].pc # "done"}

\* the dialogs that reject the text of the URL entry
InvalidInputDialogs == {"Please enter a YouTube URL", "Please enter a valid YouTube URL"}

\* C1: in every reachable state at most one download thread is active, and a
\* start request made while the flag is set starts no thread and posts
\* nothing to the foreground's queue.
C1_SingleWorker ==
    /\ [](Cardinality(ActiveWorkers) <= 1)
    /\ [][\A u \in Urls, e \in BOOLEAN :
              (is_downloading /\ start_download(u, e))
                  => UNCHANGED <<workers, after_queue>>]_vars

\* a download thread is active and a start request with a valid URL and an
\* existing folder is answered "Download already in progress"
C1_Witness ==
    /\ is_downloading
    /\ Cardinality(ActiveWorkers) = 1
    /\ start_download_dialog(U_watch, TRUE) = "Download already in progress"

\* C3 as stated: every start request made while the flag is set is answered
\* "Download already in progress".
C3_AlwaysAlreadyInProgress ==
    is_downloading =>
        \A u \in Urls, e \in BOOLEAN :
            start_download_dialog(u, e) = "Download already in progress"

\* C3, amended: every start request made while the flag is set is rejected,
\* with "Download already in progress" when the URL is valid and the folder
\* exists and with the URL's or the folder's dialog otherwise, and the step
\* leaves the flag, the progress value, the threads and the queued and
\* handled progress events as they were.
C3_RejectedUntouched ==
    /\ [](is_downloading =>
            \A u \in Urls, e \in BOOLEAN :
                /\ start_download_dialog(u, e) # ""
                /\ (url_is_valid[Strip(u)] /\ e) =>
                       start_download_dialog(u, e) = "Download already in progress"
                /\ Strip(u) = <<>> =>
                       start_download_dialog(u, e) = "Please enter a YouTube URL"
                /\ (Strip(u) # <<>> /\ ~url_is_valid[Strip(u)]) =>
                       start_download_dialog(u, e) = "Please enter a valid YouTube URL"
                /\ (url_is_valid[Strip(u)] /\ ~e) =>
                       start_download_dialog(u, e) = "Download folder does not exist")
    /\ [][\A u \in Urls, e \in BOOLEAN :
              (is_downloading /\ start_download(u, e))
                  => UNCHANGED <<is_downloading, progress_var, status_label,
                                 workers, after_queue>>]_vars

\* a download is running, has shown progress, has an event waiting, and a
\* start request is answered "Download already in progress"
C3_Witness ==
    /\ is_downloading
    /\ progress_var > 0
    /\ after_queue # <<>>
    /\ \E w \in DOMAIN workers : workers[w].handled # <<>>
    /\ start_download_dialog(U_watch, TRUE) = "Download already in progress"

\* the progress events of download w that wait in the queue, oldest first
QueuedEvents(w) ==
    LET Mine(cb) == cb.fn = "_update_progress" /\ cb.w = w
        q == SelectSeq(after_queue, Mine)
    IN  [i \in 1..Len(q) |-> [percent |-> q[i].percent, status |-> q[i].status]]

\* the completions of download w that wait in the queue
QueuedCompletions(w) ==
    LET Mine(cb) == cb.fn = "_download_complete" /\ cb.w = w
        q == SelectSeq(after_queue, Mine)
    IN  [i \in 1..Len(q) |-> [success |-> q[i].success, message |-> q[i].message]]

\* the external process of download w has exited with code 0
ExitedZero(w) ==
    /\ w \in DOMAIN workers
    /\ workers[w].yt_exe
    /\ workers[w].pc = "done"
    /\ workers[w].err = NoErr

\* the external process of download w has exited with another code
ExitedNonZero(w) ==
    /\ w \in DOMAIN workers
    /\ workers[w].yt_exe
    /\ workers[w].pc = "done"
    /\ workers[w].err.etype = "RuntimeError"

\* the foreground has handled a completion callback of download w
Delivered(w, success) ==
    /\ w \in DOMAIN workers
    /\ workers[w].completions # <<>>
    /\ workers[w].completions[1].success = success

\* the failure of download w was relayed to the foreground as a failure
FailureRelayed(w) ==
    LET c == [success |-> FALSE, message |-> Msg("Download failed:", workers[w].err)]
    IN  /\ workers[w].pc = "done"
        /\ workers[w].completions \o QueuedCompletions(w) = <<c>>

\* the success of download w was relayed to the foreground as a success
SuccessRelayed(w) ==
    LET c == [success |-> TRUE, message |-> Msg("Download completed successfully!", NoErr)]
    IN  workers[w].completions \o QueuedCompletions(w) = <<c>>

\* C2: with the download threads and the main loop running on, the flag
\* never stays set for ever; a download whose process exited with code 0 has
\* one success completion relayed and one whose process exited with another
\* code (also with no output) has one failure completion relayed; whenever
\* the flag is clear those completions have been handled, and handling a
\* completion clears the flag.
C2_AlwaysCompletes ==
    /\ is_downloading ~> ~is_downloading
    /\ [](\A w \in DOMAIN workers :
              /\ ExitedZero(w) => SuccessRelayed(w)
              /\ ExitedNonZero(w) => FailureRelayed(w))
    /\ [](~is_downloading =>
              \A w \in DOMAIN workers :
                  /\ ExitedZero(w) => Delivered(w, TRUE)
                  /\ ExitedNonZero(w) => Delivered(w, FALSE))
    /\ [][\A w \in DOMAIN workers :
              Len(workers'[w].completions) > Len(workers[w].completions)
                  => ~is_downloading']_vars

\* a process that printed nothing and exited with code 1 had its failure
\* handled and the flag is clear
C2_Witness ==
    \E w \in DOMAIN workers :
        /\ ExitedNonZero(w)
        /\ workers[w].read = <<>>
        /\ Delivered(w, FALSE)
        /\ ~is_downloading

\* the event the foreground is to handle for the output line raw
Event(raw) == [percent |-> ParsePercent(Strip(raw)), status |-> Status("", Strip(raw))]

\* C4: for every download through the executable, the events handled on the
\* foreground followed by the events still queued are the events of the lines
\* read, in the order the lines were read, each once.
C4_LineOrder ==
    \A w \in DOMAIN workers :
        workers[w].yt_exe =>
            workers[w].handled \o QueuedEvents(w)
                = [i \in 1..Len(workers[w].read) |-> Event(workers[w].read[i])]

\* two different lines were read and both events were handled
C4_Witness ==
    \E w \in DOMAIN workers :
        /\ Len(workers[w].read) >= 2
        /\ workers[w].read[1] # workers[w].read[2]
        /\ Len(workers[w].handled) >= 2

\* C5 as stated: no failure of resolving (locating the tools) happens on a
\* download thread: each is surfaced before a thread is started.
C5_ResolvingFailsBeforeSpawn ==
    \A w \in DOMAIN workers : workers[w].failed_in # "Resolving"

\* C5, amended: a failure of validating (empty or invalid URL, missing folder)
\* is answered by a dialog in the handler and starts no thread, so every
\* thread started has a valid URL; a failure of resolving (no executable and
\* no library) or of running happens on the download thread and is relayed
\* through the completion callback as a failure.
C5_ValidationBeforeSpawn ==
    /\ [](\A u \in Urls, e \in BOOLEAN :
              (Strip(u) = <<>> \/ ~url_is_valid[Strip(u)] \/ ~e)
                  => start_download_dialog(u, e) # "")
    /\ [][\A u \in Urls, e \in BOOLEAN :
              (start_download_dialog(u, e) # "" /\ start_download(u, e))
                  => UNCHANGED <<workers, after_queue>>]_vars
    /\ [](\A w \in DOMAIN workers :
              /\ ~Settled(workers[w]) =>
                     (workers[w].url # <<>> /\ url_is_valid[workers[w].url])
              /\ workers[w].failed_in # "none" => FailureRelayed(w))

\* a download through the library failed to import it, on its thread, and
\* the failure was handled on the foreground
C5_Witness ==
    \E w \in DOMAIN workers :
        /\ workers[w].failed_in = "Resolving"
        /\ Delivered(w, FALSE)

\* thread w has taken a step
WorkerAdvanced(w) ==
    /\ w \in DOMAIN workers'
    /\ \/ workers'[w].pc # workers[w].pc
       \/ Len(workers'[w].read) > Len(workers[w].read)
       \/ workers'[w].nhooks > workers[w].nhooks

InfoAdvanced(i) ==
    /\ i \in DOMAIN info_threads'
    /\ info_threads'[i].pc # info_threads[i].pc

\* C6: no step of a download thread or of a metadata thread changes the
\* state the foreground owns (flag, progress value, status text, buttons,
\* information box); the steps that change it are foreground steps.
C6_WorkersNeverWrite ==
    [][((\E w \in DOMAIN workers : WorkerAdvanced(w))
         \/ (\E i \in DOMAIN info_threads : InfoAdvanced(i)))
            => UNCHANGED fg_vars]_vars

\* a download and a metadata fetch have both ended and their callbacks were
\* handled on the foreground
C6_Witness ==
    /\ \E w \in DOMAIN workers : workers[w].pc = "done" /\ workers[w].completions # <<>>
    /\ \E i \in DOMAIN info_threads : info_threads[i].pc = "done"
    /\ info_text # ""
    /\ after_queue = <<>>

\* C7: the error raised for a non-zero exit code carries the output read
\* from the process, and so does the failure message that is relayed.
C7_ErrorCarriesOutput ==
    \A w \in DOMAIN workers :
        ExitedNonZero(w) =>
            /\ workers[w].err.output = workers[w].read
            /\ \A i \in DOMAIN workers[w].completions :
                   workers[w].completions[i].message.err.output = workers[w].read

\* C9: every queued progress event has a percent that is Unknown or within
\* 0..100 (0..1000 tenths), and so has the progress value.
C9_PercentInRange ==
    /\ progress_var \in 0..1000
    /\ \A i \in DOMAIN after_queue :
           after_queue[i].fn = "_update_progress" =>
               (after_queue[i].percent = Unknown \/ after_queue[i].percent \in 0..1000)

\* t is written as one to three digits, a point, a digit and a percent sign
IsDecimalPct(t) ==
    /\ Len(t) \in 4..6
    /\ t[Len(t)] = "%"
    /\ t[Len(t) - 1] \in Digits
    /\ t[Len(t) - 2] = "."
    /\ \A j \in 1..(Len(t) - 3) : t[j] \in Digits

\* t is written as one to three digits and a percent sign
IsIntegerPct(t) ==
    /\ Len(t) \in 2..4
    /\ t[Len(t)] = "%"
    /\ \A j \in 1..(Len(t) - 1) : t[j] \in Digits

\* the number the digits d write
Written(d) ==
    IF Len(d) = 1 THEN DigitVal(d[1])
    ELSE IF Len(d) = 2 THEN 10 * DigitVal(d[1]) + DigitVal(d[2])
    ELSE 100 * DigitVal(d[1]) + 10 * DigitVal(d[2]) + DigitVal(d[3])

\* the pieces l[i..j] of a line that are a decimal percentage, those that are
\* an integer percentage, and of a set of pieces the one that starts first
DecimalPieces(l) ==
    {ij \in (1..Len(l)) \X (1..Len(l)) :
        ij[1] <= ij[2] /\ IsDecimalPct(SubSeq(l, ij[1], ij[2]))}

IntegerPieces(l) ==
    {ij \in (1..Len(l)) \X (1..Len(l)) :
        ij[1] <= ij[2] /\ IsIntegerPct(SubSeq(l, ij[1], ij[2]))}

First(S) == CHOOSE m \in S : \A o \in S : m[1] <= o[1]

\* the percentage written in a line, in tenths: that of the first decimal
\* percentage when there is one, else that of the first integer percentage,
\* else Unknown
WrittenPercent(l) ==
    LET D == DecimalPieces(l)
        I == IntegerPieces(l)
    IN  IF D # {}
            THEN LET t == SubSeq(l, First(D)[1], First(D)[2])
                 IN  10 * Written(SubSeq(t, 1, Len(t) - 3)) + DigitVal(t[Len(t) - 1])
        ELSE IF I # {}
            THEN LET t == SubSeq(l, First(I)[1], First(I)[2])
                 IN  10 * Written(SubSeq(t, 1, Len(t) - 1))
        ELSE Unknown

\* C8: for every line read there is one progress callback, in the order of
\* the lines, that carries the percentage written in the stripped line (a
\* decimal percentage before an integer one) or Unknown when none is written,
\* and the stripped line as its status; "12.3% of 10MiB" gives 12.3 and
\* "Downloading..." gives Unknown.
C8_OneCallbackPerLine ==
    /\ ParsePercent(Line_spec1) = 123
    /\ ParsePercent(Line_spec2) = Unknown
    /\ \A w \in DOMAIN workers :
           LET calls == workers[w].handled \o QueuedEvents(w)
           IN  /\ Len(calls) = Len(workers[w].read)
               /\ \A i \in DOMAIN calls :
                      /\ calls[i].percent = WrittenPercent(Strip(workers[w].read[i]))
                      /\ calls[i].status = Status("", Strip(workers[w].read[i]))

\* the line "12.3% of 10MiB" was read and its callback, with 12.3, was handled
C8_Witness ==
    \E w \in DOMAIN workers :
        /\ workers[w].read = <<Line_spec1>>
        /\ workers[w].handled = <<[percent |-> 123, status |-> Status("", Line_spec1)]>>
        /\ progress_var = 123

\* the texts a recognized host ends with: scheme and www. are optional
RecognizedHosts ==
    {sc \o ww \o h \o L_dot \o t \o L_slash :
        sc \in {<<>>, L_http, L_https}, ww \in {<<>>, L_www},
        h \in {L_youtube, L_youtu, L_nocookie}, t \in {L_com, L_be}}

IsPrefix(p, u) == Len(p) <= Len(u) /\ SubSeq(u, 1, Len(p)) = p

\* eleven characters, none of & = % ?, from position k of u
IdentifierAt(u, k) ==
    /\ k + IdLen - 1 <= Len(u)
    /\ \A j \in k..(k + IdLen - 1) : u[j] \notin NotIdChars

\* u begins with a recognized host and has an identifier right after it
\* (short link), after watch?v=, embed/ or v/, or after a ?v= further on
HasVideoId(u) ==
    \E h \in RecognizedHosts :
        /\ IsPrefix(h, u)
        /\ \/ IdentifierAt(u, Len(h) + 1)
           \/ \E m \in {L_watch, L_embed, L_v} :
                  IsPrefix(h \o m, u) /\ IdentifierAt(u, Len(h) + Len(m) + 1)
           \/ \E k \in (Len(h) + 2)..(Len(u) - 2) :
                  SubSeq(u, k, k + 2) = L_qv /\ IdentifierAt(u, k + 3)

\* the texts of UrlUniverse that hold no identifier
NoIdTexts == {u \in UrlUniverse : ~HasVideoId(Strip(u))}

\* C10: the validator returns false for the empty text and for every text
\* without an 11-character identifier in a recognized position after a
\* recognized host; a download request and an information request with such
\* a text are answered by the invalid-input dialog, and every thread that was
\* started has a URL with an identifier.
C10_RejectsWithoutId ==
    /\ ~is_valid_youtube_url(<<>>)
    /\ \A u \in NoIdTexts :
           /\ ~url_is_valid[Strip(u)]
           /\ \A e \in BOOLEAN : start_download_dialog(u, e) \in InvalidInputDialogs
           /\ get_video_info_dialog(u) \in InvalidInputDialogs
    /\ \A w \in DOMAIN workers : HasVideoId(workers[w].url)
    /\ \A i \in DOMAIN info_threads : HasVideoId(info_threads[i].url)

\* an information request with an identifier was accepted; download
\* requests with "youtube.com/watch?v=abc" and with a 10-character
\* identifier are answered by the dialog and no download thread exists
C10_Witness ==
    /\ info_threads # <<>>
    /\ workers = <<>>
    /\ {U_noid, U_short} \subseteq NoIdTexts
    /\ start_download_dialog(U_noid, TRUE) = "Please enter a valid YouTube URL"
    /\ start_download_dialog(U_short, TRUE) = "Please enter a valid YouTube URL"

\* the extraction instruction of a call of the executable and of the options
\* of the library: the codec asked for, or none
CmdCodec(c) ==
    IF c.extra_args = <<>> THEN <<>>
    ELSE IF Len(c.extra_args) = 3 /\ c.extra_args[1] = "--extract-audio"
                                  /\ c.extra_args[2] = "--audio-format"
        THEN c.extra_args[3]
    ELSE <<"?">>

OptsCodec(o) ==
    IF o.postprocessors = <<>> THEN <<>>
    ELSE IF Len(o.postprocessors) = 1 /\ o.postprocessors[1].key = "FFmpegExtractAudio"
        THEN o.postprocessors[1].preferredcodec
    ELSE <<"?">>

\* download w builds its call of the executable, or its library options, in
\* this step
BuildsCmd(w) == workers[w].pc = "args" /\ workers'[w].pc = "launch"
BuildsOpts(w) == workers[w].pc = "import" /\ workers'[w].pc = "library"

\* C11: whatever quality the format string was built for, a download that
\* finds mp3 or m4a selected when it builds its invocation passes
\* "bestaudio/best" as the format and the extraction to that codec as a
\* separate instruction (--extract-audio --audio-format, or an
\* FFmpegExtractAudio post-processor); one that finds another format selected
\* passes the format string as built and no extraction; format and codec are
\* the same through the executable and through the library.
C11_AudioOverride ==
    /\ [][\A w \in DOMAIN workers :
              /\ BuildsCmd(w) =>
                     IF format_var \in {F_mp3, F_m4a}
                     THEN /\ workers'[w].cmd.fmt = T_bestaudio
                          /\ CmdCodec(workers'[w].cmd) = format_var
                     ELSE /\ workers'[w].cmd.fmt = workers[w].format_string
                          /\ workers'[w].cmd.extra_args = <<>>
              /\ BuildsOpts(w) =>
                     IF format_var \in {F_mp3, F_m4a}
                     THEN /\ workers'[w].ydl_opts.format = T_bestaudio
                          /\ OptsCodec(workers'[w].ydl_opts) = format_var
                     ELSE /\ workers'[w].ydl_opts.format = workers[w].format_string
                          /\ workers'[w].ydl_opts.postprocessors = <<>>]_vars
    /\ [](\A q \in Qualities, f \in Formats :
              LET c == BuildCmd(_get_format_string(q, f), f)
                  o == BuildOpts(_get_format_string(q, f), f)
              IN  c.fmt = o.format /\ CmdCodec(c) = OptsCodec(o))

\* with 720p and mp3 selected, a download through the executable has ended
\* that passed bestaudio/best and the extraction to mp3
C11_Witness ==
    \E w \in DOMAIN workers :
        /\ workers[w].pc = "done"
        /\ workers[w].format_string = _get_format_string(Q_720p, F_mp3)
        /\ workers[w].cmd = Cmd(T_bestaudio, <<"--extract-audio", "--audio-format", F_mp3>>)

\* the completions of download w, handled and queued
Completions(w) == workers[w].completions \o QueuedCompletions(w)

\* C12: a download has no completion callback while its thread runs and one,
\* a success when the thread ended without an error and a failure when it
\* ended with one, from the end of its thread on; every download
\* started gets its completion handled; the flag is set exactly while a
\* download's completion is not yet handled; a thread that has ended stays
\* ended, and a download thread is only added by an accepted start request.
C12_OneCompletion ==
    /\ (\E w \in DOMAIN workers : workers[w].completions = <<>>)
           ~> (\A w \in DOMAIN workers : Len(workers[w].completions) = 1)
    /\ [](\A w \in DOMAIN workers :
              /\ Len(Completions(w)) = IF workers[w].pc = "done" THEN 1 ELSE 0
              /\ \A i \in DOMAIN Completions(w) :
                     workers[w].url # <<>> =>
                         Completions(w)[i].success = (workers[w].err = NoErr))
    /\ [](is_downloading <=> \E w \in DOMAIN workers : workers[w].completions = <<>>)
    /\ [][/\ \A w \in DOMAIN workers :
                 workers[w].pc = "done" => workers'[w].pc = "done"
          /\ Len(workers') > Len(workers) =>
                 /\ Len(workers') = Len(workers) + 1
                 /\ ~is_downloading /\ is_downloading'
                 /\ \E u \in Urls, e \in BOOLEAN : start_download(u, e)]_vars

\* a failed download's one completion was handled, the flag is clear and no
\* other download was started
C12_Witness ==
    /\ Len(workers) = 1
    /\ workers[1].err # NoErr
    /\ workers[1].completions
           = <<[success |-> FALSE, message |-> Msg("Download failed:", workers[1].err)]>>
    /\ ~is_downloading
    /\ after_queue = <<>>

\* the download started last
LastWorker == workers[Len(workers)]

\* C13: no progress event of a download waits behind its completion callback,
\* so none is left once the completion was handled; while no download runs,
\* the progress value is 100 when the last download succeeded and 0 when it
\* failed.
C13_ProgressBeforeCompletion ==
    /\ \A i, j \in DOMAIN after_queue :
           (i < j /\ after_queue[i].fn = "_download_complete"
                  /\ after_queue[j].fn = "_update_progress")
               => after_queue[i].w # after_queue[j].w
    /\ \A w \in DOMAIN workers :
           workers[w].completions # <<>> => QueuedEvents(w) = <<>>
    /\ (~is_downloading /\ workers # <<>>) =>
           /\ LastWorker.completions # <<>>
           /\ progress_var = IF LastWorker.completions[1].success THEN 1000 ELSE 0

\* a download whose last line was "250%" succeeded: the event was handled
\* before the completion and the progress value is 100
C13_Witness ==
    /\ workers # <<>>
    /\ LastWorker.read # <<>>
    /\ Len(LastWorker.handled) = Len(LastWorker.read)
    /\ LastWorker.handled[Len(LastWorker.handled)].percent = 2500
    /\ LastWorker.completions # <<>>
    /\ LastWorker.completions[1].success
    /\ progress_var = 1000
    /\ ~is_downloading

====
